---- MODULE Spec2Model ----
(***************************************************************************)
(* TrustAid chat front end: the conversation controller (send), its        *)
(* settings hooks (useLocalStorage), the fallback-text formatter and the   *)
(* demo responder, as a state machine.                                     *)
(*                                                                         *)
(* The repository holds two versions of the chat component:                *)
(*   "AssistantWidget"  src/trustaid-frontend/src/App.tsx                  *)
(*   "App"              src/unnamed/part_002 (the full-page chat)          *)
(* The variable `variant` says which one is mounted.                       *)
(*                                                                         *)
(* Conventions.  Text that the code inspects character by character (the   *)
(* input buffer, chip queries) is a sequence of one-character strings;     *)
(* text the code only stores or concatenates is a TLA+ string.  A          *)
(* JavaScript object is a record that has exactly the keys the object has  *)
(* (an absent key is undefined), null is [null |-> TRUE], an array is      *)
(* [arr |-> <<...>>], and a string or boolean whose type the code does not *)
(* control is [str |-> s] or [bool |-> b].  Typographic quotes and dashes  *)
(* of the source literals are written in ASCII.                            *)
(***************************************************************************)
EXTENDS Integers, Sequences, FiniteSets, TLC

VARIABLES
  variant,       \* which component is mounted
  mounted,       \* FALSE once a render error has unmounted the React tree
  apiBase,       \* useLocalStorage(STORAGE_KEYS.apiBase, DEFAULT_API)
  demoMode,      \* useLocalStorage(STORAGE_KEYS.demoMode, ...)
  pipelinePref,  \* useLocalStorage<PipelinePref>(STORAGE_KEYS.pipelinePref, "auto")
  storage,       \* window.localStorage, the three keys of STORAGE_KEYS
  busy,          \* useState(false)
  error,         \* useState<string | null>(null)
  query,         \* useState(""), the input buffer
  messages,      \* useState<ChatItem[]>([...]), the transcript
  inflight,      \* the suspended send() calls: one record per pending await
  nSent,         \* how many send() calls passed the guard
  last           \* the most recent send() call or completion (observation only)

vars == <<variant, mounted, apiBase, demoMode, pipelinePref, storage,
          busy, error, query, messages, inflight, nSent, last>>

(***************************************************************************)
(* Bounds of the model.                                                    *)
(***************************************************************************)
MaxSends == 2

(***************************************************************************)
(* Characters and strings.                                                 *)
(***************************************************************************)
UpperLetters == <<"A","B","C","D","E","F","G","H","I","J","K","L","M",
                  "N","O","P","Q","R","S","T","U","V","W","X","Y","Z">>
LowerLetters == <<"a","b","c","d","e","f","g","h","i","j","k","l","m",
                  "n","o","p","q","r","s","t","u","v","w","x","y","z">>
Digits == {"0","1","2","3","4","5","6","7","8","9"}
WhiteSpace == {" ", "\t", "\n"}

\* the case folding of a regular expression's i flag
ToLower(c) ==
  IF \E k \in 1..26 : UpperLetters[k] = c
    THEN LowerLetters[CHOOSE k \in 1..26 : UpperLetters[k] = c]
    ELSE c

\* String.prototype.trim
RECURSIVE TrimStart(_)
TrimStart(s) ==
  IF s # <<>> /\ Head(s) \in WhiteSpace THEN TrimStart(Tail(s)) ELSE s

RECURSIVE TrimEnd(_)
TrimEnd(s) ==
  IF s # <<>> /\ s[Len(s)] \in WhiteSpace THEN TrimEnd(SubSeq(s, 1, Len(s) - 1)) ELSE s

trim(s) == TrimEnd(TrimStart(s))

\* the JavaScript string a character sequence stands for
RECURSIVE Str(_)
Str(s) == IF s = <<>> THEN "" ELSE Head(s) \o Str(Tail(s))

\* pat occurs in s at position k, letters compared case-insensitively
MatchAt(s, pat, k) ==
  /\ k + Len(pat) - 1 <= Len(s)
  /\ \A j \in 1..Len(pat) : ToLower(s[k + j - 1]) = pat[j]

Contains(s, pat) == \E k \in 1..Len(s) : MatchAt(s, pat, k)

(***************************************************************************)
(* JavaScript values of the settings, and JSON.                            *)
(***************************************************************************)
JStr(s) == [str |-> s]
JBool(b) == [bool |-> b]
JSNull == [null |-> TRUE]

IsStr(v) == DOMAIN v = {"str"}
IsBool(v) == DOMAIN v = {"bool"}
IsNull(v) == DOMAIN v = {"null"}
IsArr(v) == DOMAIN v = {"arr"}

\* ToBoolean, as `if (v)`, `!v` and `v || w` apply it
Truthy(v) ==
  CASE IsStr(v)  -> v.str # ""
    [] IsBool(v) -> v.bool
    [] IsNull(v) -> FALSE
    [] OTHER     -> TRUE

DEFAULT_API == "http://localhost:8000"
OtherApi == "https://api.example"

\* the values a settings entry can hold in this model
JSValues ==
  {JStr("auto"), JStr("navigator"), JStr("trustbot"), JStr("legacy"),
   JStr(DEFAULT_API), JStr(OtherApi), JBool(TRUE), JBool(FALSE), JSNull}

\* strings written without their quotes
JSONstringifyBare(v) ==
  CASE IsStr(v)  -> v.str
    [] IsBool(v) -> IF v.bool THEN "true" ELSE "false"
    [] IsNull(v) -> "null"

JSONstringify(v) ==
  CASE IsStr(v)  -> "\"" \o v.str \o "\""
    [] IsBool(v) -> IF v.bool THEN "true" ELSE "false"
    [] IsNull(v) -> "null"

Throws == [throws |-> TRUE]
Returns(v) == [value |-> v]
IsThrow(r) == "throws" \in DOMAIN r

\* the characters of the text s, one by one
Chars(s) == [i \in 1..Len(s) |-> SubSeq(s, i, i)]

\* JSON.parse of a stored text: a literal, a string without escapes, or a
\* SyntaxError (numbers, arrays and objects are not among the texts of this model)
JSONparse(raw) ==
  IF raw = "true" THEN Returns(JBool(TRUE))
  ELSE IF raw = "false" THEN Returns(JBool(FALSE))
  ELSE IF raw = "null" THEN Returns(JSNull)
  ELSE IF /\ Len(raw) >= 2
          /\ Chars(raw)[1] = "\""
          /\ Chars(raw)[Len(raw)] = "\""
          /\ \A i \in 2..(Len(raw) - 1) : Chars(raw)[i] \notin {"\"", "\\"}
    THEN Returns(JStr(SubSeq(raw, 2, Len(raw) - 1)))
  ELSE Throws

STORAGE_KEYS == [apiBase      |-> "trustaid.apiBase",
                 demoMode     |-> "trustaid.demoMode",
                 pipelinePref |-> "trustaid.pipelinePref"]

StorageKeySet == {STORAGE_KEYS.apiBase, STORAGE_KEYS.demoMode, STORAGE_KEYS.pipelinePref}

\* localStorage.getItem gives null for a key that has no entry
NoItem == "<no item>"

\* localStorage.getItem throws (storage is denied to the page)
GetItemThrows == "<getItem throws>"

\* the initial state with the try block alone: what a malformed entry parses to
\* is not replaced by the default
useLocalStorageInitNoCatch(store, key, initial) ==
  LET raw == store[key] IN
  IF raw = GetItemThrows THEN JSNull
  ELSE IF raw = NoItem \/ raw = "" THEN initial
  ELSE IF IsThrow(JSONparse(raw)) THEN JSNull
  ELSE JSONparse(raw).value

\* useLocalStorage, the lazy initial state:
\* try { raw = getItem(key); return raw ? JSON.parse(raw) : initial } catch { return initial }
useLocalStorageInit(store, key, initial) ==
  LET raw == store[key] IN
  IF raw = GetItemThrows THEN initial
  ELSE IF raw = NoItem \/ raw = "" THEN initial
  ELSE IF IsThrow(JSONparse(raw)) THEN initial
  ELSE JSONparse(raw).value

\* useLocalStorage, the effect that runs after every change of value
useLocalStorageEffect(store, key, value) ==
  [store EXCEPT ![key] = JSONstringify(value)]

(***************************************************************************)
(* Response payloads and the fallback-text formatter.                      *)
(***************************************************************************)
Has(o, k) == k \in DOMAIN o

\* Array.prototype.join("\n") of a sequence of strings
RECURSIVE JoinLines(_)
JoinLines(ls) ==
  IF ls = <<>> THEN ""
  ELSE IF Len(ls) = 1 THEN ls[1]
  ELSE ls[1] \o "\n" \o JoinLines(Tail(ls))

\* `${s.title}`: an absent property is undefined and prints as "undefined"
TemplateTitle(s) == IF Has(s, "title") THEN s.title ELSE "undefined"

\* x.answer || fallback
AnswerOr(data, fallback) ==
  IF Has(data, "answer") /\ data.answer # "" THEN data.answer ELSE fallback

\* The body of formatAssistantText once data is known to be an object.
\* (data.steps || []).map(...) throws a TypeError when steps is truthy and no
\* array, and s.title throws when an element is null.
FormatObject(data, header) ==
  IF Has(data, "kind") /\ data.kind = "navigator" THEN
    LET title == AnswerOr(data, header)
        list  == IF Has(data, "steps") /\ Truthy(data.steps) THEN data.steps ELSE [arr |-> <<>>]
    IN  IF ~IsArr(list) THEN Throws
        ELSE IF \E i \in 1..Len(list.arr) : IsNull(list.arr[i]) THEN Throws
        ELSE Returns(title \o "\n" \o
               JoinLines([i \in 1..Len(list.arr) |->
                            ToString(i) \o ". " \o TemplateTitle(list.arr[i])]))
  ELSE IF Has(data, "kind") /\ data.kind = "trustbot" THEN
    Returns(AnswerOr(data, "Here are the results with SQL shown."))
  ELSE Returns("")

\* App.tsx: data?.kind, so a null body formats to ""
formatAssistantTextWidget(data) ==
  IF IsNull(data) THEN Returns("")
  ELSE FormatObject(data, "Here are the recommended steps:")

\* part_002: data.kind, so a null body throws a TypeError
formatAssistantTextApp(data) ==
  IF IsNull(data) THEN Throws
  ELSE FormatObject(data, "Here are the recommended steps based on official sources:")

formatAssistantText(v, data) ==
  IF v = "AssistantWidget" THEN formatAssistantTextWidget(data)
  ELSE formatAssistantTextApp(data)

(***************************************************************************)
(* The demo responder.                                                     *)
(***************************************************************************)
\* genId(): Math.random() and Date.now(); any of these may come out
AuditIds == {"k3x9p1", "m7q2w8"}

\* the pattern without its i flag: /die|passed away|bereave|death/.test(q)
isBereavementCaseSensitive(q) ==
  \E w \in { <<"d","i","e">>, <<"p","a","s","s","e","d"," ","a","w","a","y">>,
              <<"b","e","r","e","a","v","e">>, <<"d","e","a","t","h">> } :
     \E k \in 1..Len(q) :
        k + Len(w) - 1 <= Len(q) /\ SubSeq(q, k, k + Len(w) - 1) = w

\* /die|passed away|bereave|death/i.test(q)
isBereavement(q) ==
  \/ Contains(q, <<"d","i","e">>)
  \/ Contains(q, <<"p","a","s","s","e","d"," ","a","w","a","y">>)
  \/ Contains(q, <<"b","e","r","e","a","v","e">>)
  \/ Contains(q, <<"d","e","a","t","h">>)

\* the pattern without its i flag
AggregationPatternCaseSensitive(q) ==
  \/ \E w \in { <<"t","o","p">>, <<"a","v","e","r","a","g","e">>, <<"m","e","d","i","a","n">>,
                 <<"q","u","a","r","t","e","r">>, <<"a","m","o","u","n","t">>, <<"s","u","m">>,
                 <<"h","o","w"," ","m","a","n","y">>, <<"s","h","o","w">> } :
        \E k \in 1..Len(q) :
           k + Len(w) - 1 <= Len(q) /\ SubSeq(q, k, k + Len(w) - 1) = w
  \/ \E k \in 1..(Len(q) - 1) : q[k] = "q" /\ q[k + 1] \in Digits
  \/ \E k \in 1..(Len(q) - 1) : q[k] \in Digits /\ q[k + 1] = "%"

\* /top|average|median|quarter|q\d|amount|sum|\d+%|how many|show/i.test(q)
AggregationPattern(q) ==
  \/ Contains(q, <<"t","o","p">>)
  \/ Contains(q, <<"a","v","e","r","a","g","e">>)
  \/ Contains(q, <<"m","e","d","i","a","n">>)
  \/ Contains(q, <<"q","u","a","r","t","e","r">>)
  \/ \E k \in 1..(Len(q) - 1) : ToLower(q[k]) = "q" /\ q[k + 1] \in Digits
  \/ Contains(q, <<"a","m","o","u","n","t">>)
  \/ Contains(q, <<"s","u","m">>)
  \/ \E k \in 1..(Len(q) - 1) : q[k] \in Digits /\ q[k + 1] = "%"
  \/ Contains(q, <<"h","o","w"," ","m","a","n","y">>)
  \/ Contains(q, <<"s","h","o","w">>)

\* mockResponse(q) of App.tsx
mockResponseWidget(q, id) ==
  IF isBereavement(q) THEN
    [kind |-> "navigator",
     answer |-> "I'm sorry for your loss. Here is a simple plan after a death:",
     steps |-> [arr |-> <<
       [title |-> "Register the death",
        link |-> "https://www.servicesaustralia.gov.au/when-someone-dies"],
       [title |-> "Organise the funeral",
        link |-> "https://www.service.nsw.gov.au/death-and-bereavement"],
       [title |-> "Notify people and organisations"] >>],
     evidence |-> [arr |-> <<
       [title |-> "When someone dies - Services Australia",
        url |-> "https://www.servicesaustralia.gov.au/when-someone-dies",
        updated_at |-> "2025-06-01"],
       [title |-> "Death and bereavement - Service NSW",
        url |-> "https://www.service.nsw.gov.au/",
        updated_at |-> "2025-05-12"] >>],
     confidence |-> [level |-> "high", score |-> "0.86"],
     audit_id |-> id]
  ELSE
    [kind |-> "navigator",
     answer |-> "Here's what to do:",
     steps |-> [arr |-> <<
       [title |-> "Check eligibility"],
       [title |-> "Prepare documents"],
       [title |-> "Apply online"] >>],
     evidence |-> [arr |-> <<>>],
     confidence |-> [level |-> "medium", score |-> "0.6"],
     audit_id |-> id]

\* mockResponse(q, pref) of part_002
mockResponseApp(q, pref, id) ==
  LET wantTrust == pref = JStr("trustbot") \/ AggregationPattern(q) IN
  IF wantTrust THEN
    [kind |-> "trustbot",
     answer |-> "Top vendor payments in 2023-24 Q2 (>= $500k).",
     table |-> [columns |-> [arr |-> <<"vendor", "amount", "date", "category">>],
                rows |-> [arr |-> <<
                  [arr |-> <<JStr("Acme Pty Ltd"), [num |-> 830000],
                             JStr("2024-02-13"), JStr("IT")>>],
                  [arr |-> <<JStr("Koala Tech"), [num |-> 790000],
                             JStr("2024-03-29"), JStr("Services")>>],
                  [arr |-> <<JStr("Wattle Solutions"), [num |-> 670000],
                             JStr("2024-01-19"), JStr("Consulting")>>] >>]],
     chart |-> [type |-> "bar", x |-> "vendor", y |-> "amount"],
     sql |-> "SELECT vendor, amount, paid_at as date, category FROM procurement_payments WHERE amount >= 500000 AND quarter='2023-24 Q2' ORDER BY amount DESC LIMIT 10;",
     dataset |-> [name |-> "AusTender Demo", period |-> "2023-07-01..2024-06-30",
                  last_updated |-> "<now>"],
     confidence |-> [level |-> "exact", score |-> "1.0"],
     audit_id |-> id]
  ELSE
    [kind |-> "navigator",
     answer |-> "Based on official sources, here is a simple plan to arrange home care after hospital discharge:",
     steps |-> [arr |-> <<
       [title |-> "Book a My Aged Care assessment", link |-> "https://www.myagedcare.gov.au/"],
       [title |-> "Prepare medical summary & ID documents",
        link |-> "https://www.healthdirect.gov.au/"],
       [title |-> "Explore interim respite services in your LGA"] >>],
     evidence |-> [arr |-> <<
       [title |-> "Home Care Packages (My Aged Care)",
        url |-> "https://www.myagedcare.gov.au/home-care-package",
        updated_at |-> "2025-06-01", similarity |-> "0.82"],
       [title |-> "Carer Allowance (Services Australia)",
        url |-> "https://www.servicesaustralia.gov.au/carer-allowance",
        updated_at |-> "2025-05-12", similarity |-> "0.76"] >>],
     confidence |-> [level |-> "high", score |-> "0.84"],
     audit_id |-> id]

\* the call in send(): App.tsx passes the text only, part_002 the preference too
mockResponse(v, q, pref, id) ==
  IF v = "AssistantWidget" THEN mockResponseWidget(q, id) ELSE mockResponseApp(q, pref, id)

(***************************************************************************)
(* Transcript entries.                                                     *)
(***************************************************************************)
WelcomeWidget ==
  [role |-> "assistant",
   content |-> "Hello, I'm your virtual assistant.\n\nThink of me as your guide to government services-from payments and health support to local events and everyday needs.\n\nHow can I help you today?"]

WelcomeApp ==
  [role |-> "system",
   content |-> "Welcome to TrustAid. Ask about government services or data. We show citations, SQL and audit trails."]

InitialMessages(v) == IF v = "AssistantWidget" THEN <<WelcomeWidget>> ELSE <<WelcomeApp>>

UserEntry(text) == [role |-> "user", content |-> Str(text)]

AssistantEntry(content, data) == [role |-> "assistant", content |-> content, payload |-> data]

SummaryPrompt ==
  [role |-> "assistant",
   content |-> "Would you like a quick summary of the steps?",
   payload |-> [kind |-> "summary_prompt"]]

ErrorEntry ==
  [role |-> "assistant",
   content |-> "Sorry, something went wrong. Please try again.",
   payload |-> [kind |-> "error"]]

\* item.payload?.kind === k
PayloadKindIs(item, k) ==
  /\ Has(item, "payload")
  /\ ~IsNull(item.payload)
  /\ Has(item.payload, "kind")
  /\ item.payload.kind = k

\* data?.kind === "navigator"
IsNavigator(data) == ~IsNull(data) /\ Has(data, "kind") /\ data.kind = "navigator"

\* the follow-up prompt added after every payload that has a kind at all
SuccessEntriesAnyKind(v, data) ==
  <<AssistantEntry(formatAssistantText(v, data).value, data)>>
    \o (IF v = "AssistantWidget" /\ ~IsNull(data) /\ Has(data, "kind")
          THEN <<SummaryPrompt>> ELSE <<>>)

\* The entries the success branch of send() appends.  App.tsx adds the follow-up
\* prompt after every navigator payload; part_002 appends the one entry.
SuccessEntries(v, data) ==
  <<AssistantEntry(formatAssistantText(v, data).value, data)>>
    \o (IF v = "AssistantWidget" /\ IsNavigator(data) THEN <<SummaryPrompt>> ELSE <<>>)

(***************************************************************************)
(* Rendering of one transcript entry, as far as it can fail.  A TypeError  *)
(* thrown while React renders is caught by no error boundary (the code has *)
(* none), so it unmounts the whole tree.                                   *)
(***************************************************************************)
\* x is an array with an element that is null: x.map(e => e.title) throws
HasNullElement(x) == IsArr(x) /\ \E i \in 1..Len(x.arr) : IsNull(x.arr[i])

\* NavigatorAnswer: Array.isArray guards steps and evidence, nothing guards the elements
NavigatorAnswerThrows(data) ==
  \/ Has(data, "steps") /\ HasNullElement(data.steps)
  \/ Has(data, "evidence") /\ HasNullElement(data.evidence)

\* TrustbotAnswer: table?.columns && table.columns.map(...), table.rows?.map(r => r.map(...))
TrustbotAnswerThrows(data) ==
  /\ Has(data, "table")
  /\ ~IsNull(data.table)
  /\ Has(data.table, "columns")
  /\ Truthy(data.table.columns)
  /\ \/ ~IsArr(data.table.columns)
     \/ /\ Has(data.table, "rows")
        /\ ~IsNull(data.table.rows)
        /\ (~IsArr(data.table.rows) \/ \E i \in 1..Len(data.table.rows.arr) :
                                          ~IsArr(data.table.rows.arr[i]))

\* MessageBubble and AssistantCard
RenderThrows(item) ==
  /\ item.role = "assistant"
  /\ Has(item, "payload")
  /\ ~IsNull(item.payload)
  /\ ~PayloadKindIs(item, "summary_prompt")
  /\ \/ PayloadKindIs(item, "navigator") /\ NavigatorAnswerThrows(item.payload)
     \/ PayloadKindIs(item, "trustbot") /\ TrustbotAnswerThrows(item.payload)

(***************************************************************************)
(* The environment: what the user types and what the backend answers.      *)
(***************************************************************************)
\* values typed into the input box
InputTexts == { <<" ">>, <<" ","h","i"," ">> }

QUICK_CATEGORIES == <<
       <<"W","h","a","t"," ","p","a","y","m","e","n","t","s"," ","o","r"," ","b","e","n","e","f","i",
         "t","s"," ","c","a","n"," ","I"," ","g","e","t","?">>,
       <<"W","h","a","t"," ","l","i","c","e","n","s","e","s"," ","o","r"," ","r","e","g","i","s","t",
         "r","a","t","i","o","n","s"," ","d","o"," ","I"," ","n","e","e","d"," ","t","o"," ","s","t",
         "a","r","t"," ","a"," ","s","m","a","l","l"," ","b","u","s","i","n","e","s","s","?">>,
       <<"W","h","a","t"," ","t","o"," ","d","o"," ","w","h","e","n"," ","s","o","m","e","o","n","e",
         " ","d","i","e","s">>,
       <<"F","i","n","d"," ","c","o","m","m","u","n","i","t","y"," ","s","u","p","p","o","r","t"," ",
         "s","e","r","v","i","c","e","s"," ","n","e","a","r"," ","m","e">>,
       <<"H","o","w"," ","t","o"," ","a","p","p","l","y"," ","f","o","r"," ","a"," ","c","o","n","c",
         "e","s","s","i","o","n"," ","t","r","a","v","e","l"," ","c","a","r","d">>,
       <<"W","h","a","t"," ","h","e","l","p"," ","i","s"," ","a","v","a","i","l","a","b","l","e"," ",
         "f","o","r"," ","r","e","n","t","i","n","g"," ","o","r"," ","b","u","y","i","n","g"," ","a",
         " ","h","o","m","e","?">> >>

\* the chips the model clicks: one that is no bereavement query and the one that is
ChipsClicked == {1, 3}

SummariseText == <<"Y","e","s",","," ","t","e","l","l"," ","m","e"," ","t","h","e"," ","s","t","e","p","s">>

\* bodies res.json() can resolve to
ResponseBodies ==
  { JSNull,
    [kind |-> "unknown_future_type", note |-> "beta"],
    [kind |-> "trustbot", answer |-> "There were 42 payments."],
    [kind |-> "navigator", answer |-> "Do this:",
     steps |-> [arr |-> << [title |-> "Apply"], [link |-> "https://example.gov"] >>]],
    [kind |-> "navigator", steps |-> [arr |-> << JSNull >>]],
    [kind |-> "navigator", steps |-> [str |-> "soon"]],
    [kind |-> "trustbot", table |-> [columns |-> [str |-> "vendor"]]] }

\* e.message of what fetch() or res.json() rejects with; "" stands for no message
RejectMessages == { "Failed to fetch", "" }
JsonErrorMessages == { "Unexpected token < in JSON at position 0" }

\* res.status of a response whose res.ok is false
BadStatuses == { 500 }

\* values typed into the API Base box
ApiInputs == { OtherApi }

\* raw localStorage contents found at startup
InitialPrefItems ==
  { NoItem, "", "{not json", "\"auto\"", "\"navigator\"", "\"trustbot\"", "\"legacy\"" }
InitialDemoItems == { NoItem, "true", "false" }
InitialApiItems == { NoItem, "\"https://api.example\"" }

(***************************************************************************)
(* Initial state: the component has mounted.  Each useLocalStorage hook    *)
(* has read its entry and its effect has written the value back.           *)
(***************************************************************************)
Variants == {"AssistantWidget", "App"}

\* useLocalStorage(STORAGE_KEYS.demoMode, false) in App.tsx, (..., true) in part_002
DefaultDemoMode(v) == JBool(v = "App")

Init ==
  /\ variant \in Variants
  /\ mounted = TRUE
  /\ \E a \in InitialApiItems, d \in InitialDemoItems, p \in InitialPrefItems :
       LET found == [k \in StorageKeySet |->
                       IF k = STORAGE_KEYS.apiBase THEN a
                       ELSE IF k = STORAGE_KEYS.demoMode THEN d ELSE p]
       IN  /\ apiBase = useLocalStorageInit(found, STORAGE_KEYS.apiBase, JStr(DEFAULT_API))
           /\ demoMode = useLocalStorageInit(found, STORAGE_KEYS.demoMode, DefaultDemoMode(variant))
           /\ pipelinePref = useLocalStorageInit(found, STORAGE_KEYS.pipelinePref, JStr("auto"))
           /\ storage =
                useLocalStorageEffect(
                  useLocalStorageEffect(
                    useLocalStorageEffect(found, STORAGE_KEYS.apiBase, apiBase),
                    STORAGE_KEYS.demoMode, demoMode),
                  STORAGE_KEYS.pipelinePref, pipelinePref)
  /\ busy = FALSE
  /\ error = JSNull
  /\ query = <<>>
  /\ messages = InitialMessages(variant)
  /\ inflight = {}
  /\ nSent = 0
  /\ last = [op |-> "mount"]

settingsVars == <<apiBase, demoMode, pipelinePref, storage>>
chatVars == <<busy, error, query, messages, inflight, nSent>>

(***************************************************************************)
(* send()                                                                  *)
(***************************************************************************)
\* `${apiBase}`
TemplateString(v) == IF IsStr(v) THEN v.str ELSE JSONstringify(v)

\* const payload = { query: text }; if (pipelinePref !== "auto") payload.force_kind = pipelinePref
RequestPayload(text, pref) ==
  IF pref # JStr("auto")
    THEN [query |-> Str(text), force_kind |-> pref]
    ELSE [query |-> Str(text)]

\* the dispatch without its test of demoMode: every accepted send() fetches
NewRequestAlwaysFetch(text, id, aid) ==
  [id |-> id, at |-> "fetch", text |-> Str(text),
   url |-> TemplateString(apiBase) \o "/chat/query", method |-> "POST",
   body |-> RequestPayload(text, pipelinePref)]

\* What send() starts and then awaits: the demo timer, holding the canned data, or
\* the fetch of `${apiBase}/chat/query`.
NewRequest(text, id, aid) ==
  IF Truthy(demoMode)
    THEN [id |-> id, at |-> "timer", text |-> Str(text),
          data |-> mockResponse(variant, text, pipelinePref, aid)]
    ELSE [id |-> id, at |-> "fetch", text |-> Str(text),
          url |-> TemplateString(apiBase) \o "/chat/query", method |-> "POST",
          body |-> RequestPayload(text, pipelinePref)]

\* payloadQuery ?? query; args is <<>> for send() and <<q>> for send(q)
RawText(args) == IF args = <<>> THEN query ELSE args[1]

\* the text taken without .trim()
EffectiveTextUntrimmed(args) == RawText(args)

\* (payloadQuery ?? query).trim()
EffectiveText(args) == trim(RawText(args))

\* the guard without its test for an empty text: if (busy) return
SendGuardIgnoresEmpty(text) == ~busy

\* the guard without its test of the busy flag: if (!text) return
SendGuardIgnoresBusy(text) == text # <<>>

\* if (!text || busy) return
SendGuard(text) == text # <<>> /\ ~busy

\* the state updates of an accepted send(), in program order
SendEffects == <<"setError", "setQuery", "setMessages", "setBusy", "dispatch">>

\* an accepted send() without setBusy(true)
AcceptWithoutSetBusy(text, raw) ==
  /\ \E aid \in AuditIds :
       inflight' = inflight \cup {NewRequest(text, nSent + 1, aid)}
  /\ error' = JSNull
  /\ query' = <<>>
  /\ messages' = Append(messages, UserEntry(text))
  /\ busy' = busy
  /\ nSent' = nSent + 1
  /\ last' = [op |-> "accepted", n |-> nSent + 1, len |-> Len(messages), raw |-> raw,
              effects |-> SendEffects]

\* send() past its guard, up to its await: setError(null), setQuery(""),
\* setMessages(m => [...m, user entry]), setBusy(true), then mockResponse(text) and
\* the timer, or fetch(...)
\* an accepted submit that leaves the error banner of the previous failure up
AcceptKeepsError(text, raw) ==
  /\ \E aid \in AuditIds :
       inflight' = inflight \cup {NewRequest(text, nSent + 1, aid)}
  /\ error' = error
  /\ query' = <<>>
  /\ messages' = Append(messages, UserEntry(text))
  /\ busy' = TRUE
  /\ nSent' = nSent + 1
  /\ last' = [op |-> "accepted", n |-> nSent + 1, len |-> Len(messages), raw |-> raw,
              effects |-> SendEffects]

Accept(text, raw) ==
  /\ \E aid \in AuditIds :
       inflight' = inflight \cup {NewRequest(text, nSent + 1, aid)}
  /\ error' = JSNull
  /\ query' = <<>>
  /\ messages' = Append(messages, UserEntry(text))
  /\ busy' = TRUE
  /\ nSent' = nSent + 1
  /\ last' = [op |-> "accepted", n |-> nSent + 1, len |-> Len(messages), raw |-> raw,
              effects |-> SendEffects]

send(args) ==
  LET text == EffectiveText(args) IN
  /\ mounted
  /\ IF SendGuard(text)
       THEN /\ nSent < MaxSends
            /\ Accept(text, RawText(args))
       ELSE /\ UNCHANGED chatVars
            /\ last' = [op |-> "rejected", empty |-> text = <<>>, busy |-> busy]
  /\ UNCHANGED <<variant, mounted, settingsVars>>

\* the send button; disabled={busy}
clickSend == ~busy /\ send(<<>>)

\* Enter in the input box; disabled={busy}
onKey == ~busy /\ send(<<>>)

\* a quick-category chip, rendered while messages.length <= 1 (App.tsx only)
Chip(i) ==
  /\ variant = "AssistantWidget"
  /\ Len(messages) <= 1
  /\ send(<<QUICK_CATEGORIES[i]>>)

\* the button under a summary prompt (App.tsx only); it is never disabled
onSummarise ==
  /\ variant = "AssistantWidget"
  /\ \E i \in 1..Len(messages) : PayloadKindIs(messages[i], "summary_prompt")
  /\ send(<<SummariseText>>)

\* onChange of the input box; disabled={busy}
setQuery(t) ==
  /\ mounted
  /\ ~busy
  /\ query' = t
  /\ UNCHANGED last
  /\ UNCHANGED <<variant, mounted, settingsVars, busy, error, messages, inflight, nSent>>

(***************************************************************************)
(* The rest of send(), after its await.                                    *)
(***************************************************************************)
\* The updater passed to setMessages runs when React renders, not inside the try
\* block: if it throws, or the new entries throw while rendering, no catch clause
\* of send() sees it, the render fails and React unmounts the tree.
SuccessThrows(v, data) ==
  IF IsThrow(formatAssistantText(v, data)) THEN TRUE
  ELSE \E i \in 1..Len(SuccessEntries(v, data)) : RenderThrows(SuccessEntries(v, data)[i])

\* the try branch written as setMessages([...messages, entry]): `messages` is the
\* transcript send() saw when it was called, before the user entry
SucceedFromStaleClosure(r, data) ==
  /\ messages' = SubSeq(messages, 1, Len(messages) - 1)
                   \o <<AssistantEntry("", data)>>
  /\ busy' = FALSE
  /\ inflight' = inflight \ {r}
  /\ last' = [op |-> "resolved", n |-> r.id, len |-> Len(messages),
                     demo |-> r.at = "timer", data |-> data]
  /\ UNCHANGED <<mounted, error, query, nSent>>

\* the try branch without the finally clause: the response is appended, busy stays
SucceedKeepsBusy(r, data) ==
  /\ messages' = messages \o SuccessEntries(variant, data)
  /\ busy' = busy
  /\ inflight' = inflight \ {r}
  /\ last' = [op |-> "resolved", n |-> r.id, len |-> Len(messages),
                     demo |-> r.at = "timer", data |-> data]
  /\ UNCHANGED <<mounted, error, query, nSent>>

\* try branch: setMessages(m => [...m, entry, ...]) and, in finally, setBusy(false)
Succeed(r, data) ==
  IF SuccessThrows(variant, data)
    THEN /\ mounted' = FALSE
         /\ inflight' = {}
         /\ last' = [op |-> "crashed", n |-> r.id, len |-> Len(messages),
                     demo |-> r.at = "timer", data |-> data]
         /\ UNCHANGED <<busy, error, query, messages, nSent>>
    ELSE /\ messages' = messages \o SuccessEntries(variant, data)
         /\ busy' = FALSE
         /\ inflight' = inflight \ {r}
         /\ last' = [op |-> "resolved", n |-> r.id, len |-> Len(messages),
                     demo |-> r.at = "timer", data |-> data]
         /\ UNCHANGED <<mounted, error, query, nSent>>

\* the message dropped: setError("Request failed")
ErrorTextAlwaysGeneric(message) == "Request failed"

\* e.message || "Request failed"
ErrorText(message) == IF message # "" THEN message ELSE "Request failed"

\* the catch branch without the finally clause: busy is never released
FailWithoutFinally(r, message) ==
  /\ error' = JStr(IF message # "" THEN message ELSE "Request failed")
  /\ messages' = Append(messages, ErrorEntry)
  /\ busy' = busy
  /\ inflight' = inflight \ {r}
  /\ last' = [op |-> "failed", n |-> r.id, len |-> Len(messages), message |-> message]
  /\ UNCHANGED <<mounted, query, nSent>>

\* catch branch: setError(...), setMessages(m => [...m, error entry]); finally setBusy(false)
Fail(r, message) ==
  /\ error' = JStr(ErrorText(message))
  /\ messages' = Append(messages, ErrorEntry)
  /\ busy' = FALSE
  /\ inflight' = inflight \ {r}
  /\ last' = [op |-> "failed", n |-> r.id, len |-> Len(messages), message |-> message]
  /\ UNCHANGED <<mounted, query, nSent>>

\* demo mode: await new Promise(r => setTimeout(r, 600)) is over
TimerFires ==
  /\ mounted
  /\ \E r \in inflight : r.at = "timer" /\ Succeed(r, r.data)
  /\ UNCHANGED <<variant, settingsVars>>

\* fetch() rejects: the network is down, CORS refuses, the URL is bad
FetchRejects ==
  /\ mounted
  /\ \E r \in inflight, m \in RejectMessages : r.at = "fetch" /\ Fail(r, m)
  /\ UNCHANGED <<variant, settingsVars>>

\* fetch() resolves with !res.ok: throw new Error(`HTTP ${res.status}`)
FetchNotOk ==
  /\ mounted
  /\ \E r \in inflight, status \in BadStatuses :
       r.at = "fetch" /\ Fail(r, "HTTP " \o ToString(status))
  /\ UNCHANGED <<variant, settingsVars>>

\* fetch() resolves with res.ok: send() goes on to await res.json()
FetchOk ==
  /\ mounted
  /\ \E r \in inflight :
       /\ r.at = "fetch"
       /\ inflight' = (inflight \ {r}) \cup {[r EXCEPT !.at = "json"]}
  /\ UNCHANGED last
  /\ UNCHANGED <<variant, mounted, settingsVars, busy, error, query, messages, nSent>>

\* res.json() rejects: the body is no JSON
JsonRejects ==
  /\ mounted
  /\ \E r \in inflight, m \in JsonErrorMessages : r.at = "json" /\ Fail(r, m)
  /\ UNCHANGED <<variant, settingsVars>>

\* res.json() resolves
JsonResolves ==
  /\ mounted
  /\ \E r \in inflight, data \in ResponseBodies : r.at = "json" /\ Succeed(r, data)
  /\ UNCHANGED <<variant, settingsVars>>

(***************************************************************************)
(* Settings.  Every change of a value runs the hook's effect, which writes *)
(* the entry.  AssistantWidget shows its controls in a panel the user can  *)
(* open at any time (openSettings); the panel holds no other state, so the *)
(* controls are modelled as always within reach.                           *)
(***************************************************************************)
\* the API Base box also clearing the error banner
setApiBaseClearsError(s) ==
  /\ mounted
  /\ apiBase' = JStr(s)
  /\ storage' = useLocalStorageEffect(storage, STORAGE_KEYS.apiBase, apiBase')
  /\ error' = JSNull
  /\ UNCHANGED last
  /\ UNCHANGED <<variant, mounted, demoMode, pipelinePref, busy, query, messages,
                 inflight, nSent>>

setApiBase(s) ==
  /\ mounted
  /\ apiBase' = JStr(s)
  /\ storage' = useLocalStorageEffect(storage, STORAGE_KEYS.apiBase, apiBase')
  /\ UNCHANGED last
  /\ UNCHANGED <<variant, mounted, demoMode, pipelinePref, chatVars>>

\* the Reset button of part_002
resetApiBase == variant = "App" /\ setApiBase(DEFAULT_API)

setDemoMode ==
  /\ mounted
  /\ demoMode' = JBool(~Truthy(demoMode))
  /\ storage' = useLocalStorageEffect(storage, STORAGE_KEYS.demoMode, demoMode')
  /\ UNCHANGED last
  /\ UNCHANGED <<variant, mounted, apiBase, pipelinePref, chatVars>>

PipelinePrefs == {"auto", "navigator", "trustbot"}

setPipelinePref(p) ==
  /\ mounted
  /\ pipelinePref' = JStr(p)
  /\ storage' = useLocalStorageEffect(storage, STORAGE_KEYS.pipelinePref, pipelinePref')
  /\ UNCHANGED last
  /\ UNCHANGED <<variant, mounted, apiBase, demoMode, chatVars>>

Next ==
  \/ clickSend
  \/ onKey
  \/ \E i \in ChipsClicked : Chip(i)
  \/ onSummarise
  \/ \E t \in InputTexts : setQuery(t)
  \/ TimerFires
  \/ FetchRejects
  \/ FetchNotOk
  \/ FetchOk
  \/ JsonRejects
  \/ JsonResolves
  \/ \E s \in ApiInputs : setApiBase(s)
  \/ resetApiBase
  \/ setDemoMode
  \/ \E p \in PipelinePrefs : setPipelinePref(p)

Spec == Init /\ [][Next]_vars

(***************************************************************************)
(* Properties.  A step of send() or of one of its completions is           *)
(* recognised by the record it leaves in `last`, which stays until the     *)
(* next such step; `last.len` is the length the transcript had before it.  *)
(***************************************************************************)
IsPrefix(a, b) == Len(a) <= Len(b) /\ SubSeq(b, 1, Len(a)) = a

OnlyWhiteSpace(s) == \A i \in 1..Len(s) : s[i] \in WhiteSpace

SendCalled == last' # last /\ last'.op \in {"accepted", "rejected"}
SendAccepted == last' # last /\ last'.op = "accepted"
RequestFailed == last' # last /\ last'.op = "failed"
RequestSucceeded == last' # last /\ last'.op \in {"resolved", "crashed"}

\* the text of the call was empty after trimming
CalledWithNoText ==
  IF last'.op = "rejected" THEN last'.empty ELSE OnlyWhiteSpace(last'.raw)

\* C1: a submit whose guard fails (busy, or no text left after trimming) changes
\* nothing: transcript, busy flag, error string and input buffer stay as they
\* were, no request is started and no error is shown.
C1_RejectedSubmitIsNoOp ==
  [][(SendCalled /\ (busy \/ CalledWithNoText)) =>
       /\ messages' = messages
       /\ busy' = busy
       /\ error' = error
       /\ query' = query
       /\ inflight' = inflight
       /\ nSent' = nSent]_vars

\* a submit with text arrived while a request was pending, and was turned away
C1_Witness ==
  /\ last.op = "rejected"
  /\ last.busy
  /\ ~last.empty
  /\ inflight # {}

\* C2: in every reachable state at most one request (HTTP call or demo timer) is
\* pending, and one is pending only while busy is set.
C2_AtMostOneInFlight ==
  /\ Cardinality(inflight) <= 1
  /\ inflight # {} => busy

\* a second request was accepted after the first one completed, and a submit was
\* turned away while it is pending
C2_Witness ==
  /\ Cardinality(inflight) = 1
  /\ nSent = 2
  /\ last.op = "rejected"
  /\ last.busy

\* t is raw without its leading and trailing white space, and is not empty
IsTrimOf(t, raw) ==
  /\ t # <<>>
  /\ t[1] \notin WhiteSpace
  /\ t[Len(t)] \notin WhiteSpace
  /\ \E i \in 1..Len(raw) :
       /\ i + Len(t) - 1 <= Len(raw)
       /\ t = SubSeq(raw, i, i + Len(t) - 1)
       /\ OnlyWhiteSpace(SubSeq(raw, 1, i - 1))
       /\ OnlyWhiteSpace(SubSeq(raw, i + Len(t), Len(raw)))

Position(seq, x) == CHOOSE i \in 1..Len(seq) : seq[i] = x

C4_FailureAppendsOneErrorEntry ==
  last.op = "failed" =>
    /\ Len(messages) = last.len + 1
    /\ messages[last.len].role = "user"
    /\ messages[Len(messages)].role = "assistant"
    /\ messages[Len(messages)].payload.kind = "error"
    /\ inflight = {}
    /\ nSent = last.n
    /\ busy = FALSE

\* an HTTP 500 was answered with the error entry
C4_Witness ==
  /\ last.op = "failed"
  /\ last.message = "HTTP 500"
  /\ PayloadKindIs(messages[Len(messages)], "error")
  /\ ~busy

\* C5: busy is set exactly while the request of an accepted submit is pending:
\* it is not released before the completion is handled, and once the request has
\* completed, with success or failure, the controller is idle again.
C5_IdleOnceRequestCompleted ==
  /\ inflight # {} => busy
  /\ inflight = {} => (~busy /\ mounted)

\* C6: the transcript is append-only: every step leaves the old transcript as a
\* prefix of the new one.
C6_TranscriptAppendOnly ==
  [][IsPrefix(messages, messages') /\ messages[1] = messages'[1]]_vars

\* two requests were answered, the later one with a failure, and a setting was
\* changed on the way
C6_Witness ==
  /\ last.op = "failed"
  /\ last.n = 2
  /\ Len(messages) >= 5
  /\ pipelinePref # JStr("auto")

\* the entries of new that are not in old (new extends old)
Appended(old, new) == SubSeq(new, Len(old) + 1, Len(new))

\* C7: when the request succeeds with response data d, the transcript grows by
\* exactly one assistant entry whose payload is d, placed directly after the
\* entries already there, its content being the fallback text of d, and the
\* error string stays null.
C7_SuccessAppendsResponseEntry ==
  [][RequestSucceeded =>
       /\ IsPrefix(messages, messages')
       /\ Len(messages') > Len(messages)
       /\ messages'[Len(messages) + 1].role = "assistant"
       /\ messages'[Len(messages) + 1].payload = last'.data
       /\ ~IsThrow(formatAssistantText(variant, last'.data)) =>
            messages'[Len(messages) + 1].content = formatAssistantText(variant, last'.data).value
       /\ Cardinality({i \in 1..Len(Appended(messages, messages')) :
                         /\ Has(Appended(messages, messages')[i], "payload")
                         /\ Appended(messages, messages')[i].payload = last'.data}) = 1
       /\ error' = JSNull]_vars

FollowUpAppended ==
  \E i \in 1..Len(Appended(messages, messages')) :
     Appended(messages, messages')[i] = SummaryPrompt

\* C8 as stated: the follow-up entry is appended exactly when a navigator-kind
\* response of the live backend has succeeded, never for a demo response.
C8_FollowUpOnlyForLiveNavigator ==
  [][IsPrefix(messages, messages') =>
       (FollowUpAppended <=>
          (RequestSucceeded /\ IsNavigator(last'.data) /\ ~last'.demo))]_vars

\* an assistant entry that carries a navigator payload
IsNavigatorEntry(item) ==
  item.role = "assistant" /\ Has(item, "payload") /\ IsNavigator(item.payload)

\* C8 amended: in AssistantWidget every assistant entry with a navigator payload,
\* from the live backend and from the demo responder alike, is directly followed
\* by the follow-up entry, and the follow-up entry stands nowhere else; App never
\* has one.
C8_FollowUpForEveryNavigatorEntry ==
  /\ \A i \in 1..Len(messages) :
       messages[i] = SummaryPrompt =>
         /\ variant = "AssistantWidget"
         /\ i > 1
         /\ IsNavigatorEntry(messages[i - 1])
  /\ \A i \in 1..Len(messages) :
       (variant = "AssistantWidget" /\ IsNavigatorEntry(messages[i])) =>
         /\ i < Len(messages)
         /\ messages[i + 1] = SummaryPrompt

\* the demo responder's navigator payload was followed by the prompt
C8_Witness ==
  /\ last.op = "resolved"
  /\ last.demo
  /\ IsNavigator(last.data)
  /\ messages[Len(messages)] = SummaryPrompt

\* C9: every kind of failure appends the same entry, whose payload is exactly
\* {kind: "error"}; what went wrong shows in the error string only, which is the
\* failure's message or, when it has none, "Request failed".
C9_FailuresShareOneEntry ==
  last.op = "failed" =>
    /\ messages[Len(messages)] =
         [role |-> "assistant",
          content |-> "Sorry, something went wrong. Please try again.",
          payload |-> [kind |-> "error"]]
    /\ error = JStr(IF last.message = "" THEN "Request failed" ELSE last.message)

\* a failure that carries no message was reported with the generic text
C9_Witness ==
  /\ last.op = "failed"
  /\ last.message = ""
  /\ error = JStr("Request failed")
  /\ messages[Len(messages)] = ErrorEntry

\* C10: the body of a live request has force_kind exactly when the pipeline
\* preference is not auto, and a force_kind is navigator or trustbot.
C10_ForceKindIsNavigatorOrTrustbot ==
  [][SendAccepted =>
       \A r \in inflight' \ inflight :
          Has(r, "body") =>
            /\ Has(r.body, "force_kind") <=> pipelinePref # JStr("auto")
            /\ Has(r.body, "force_kind") =>
                 r.body.force_kind \in {JStr("navigator"), JStr("trustbot")}]_vars

\* the HTTP requests a step issues: the fetch() calls it adds to the pending ones
NewFetches == {r \in inflight' \ inflight : r.at = "fetch"}

\* C11: an accepted submit issues exactly one HTTP request, a POST to
\* {apiBase}/chat/query, when demo mode is off and none when it is on; no other
\* step (a rejected submit, a failure, a success, a settings change) issues one.
C11_OneRequestPerAcceptedSubmit ==
  [][/\ (SendAccepted /\ ~Truthy(demoMode)) =>
          /\ Cardinality(NewFetches) = 1
          /\ \A r \in NewFetches :
               /\ r.method = "POST"
               /\ r.url = TemplateString(apiBase) \o "/chat/query"
               /\ r.id = nSent'
     /\ (SendAccepted /\ Truthy(demoMode)) => NewFetches = {}
     /\ ~SendAccepted => NewFetches = {}
     /\ RequestFailed => inflight' = {}]_vars

\* the second submit went to the API base typed into the settings, after the
\* first request had failed
C11_Witness ==
  /\ last.op = "accepted"
  /\ last.n = 2
  /\ \E r \in inflight : r.at = "fetch" /\ r.url = OtherApi \o "/chat/query"
  /\ \E i \in 1..Len(messages) : messages[i] = ErrorEntry

\* C15: a response body of unexpected shape is never an error: once the request
\* has succeeded the component still stands, the error string is null, and the
\* body is in the transcript as the payload of a normal assistant entry, not the
\* error entry.
C15_ShapeSurpriseIsNoError ==
  last.op \in {"resolved", "crashed"} =>
    /\ mounted
    /\ error = JSNull
    /\ messages[last.len + 1].role = "assistant"
    /\ messages[last.len + 1].payload = last.data
    /\ messages[last.len + 1] # ErrorEntry

(***************************************************************************)
(* The demo responder on its own.  With demo mode on, send() calls         *)
(* mockResponse with the trimmed text (and, in part_002, the pipeline      *)
(* preference).  DemoSpec starts with a text of a bounded set in the input *)
(* box and a preference the select offers, makes that call and records     *)
(* call and result in `last`.  mockResponse reads and writes no state of   *)
(* the component.                                                          *)
(***************************************************************************)
MaxQueryLen == 3

\* the letters the generated texts are made of: enough for "Die", "Top", "q1", "1%"
QueryLetters == {"D", "i", "e", "T", "o", "p", "q", "1", "%"}

ShowTopVendorPayments ==
  <<"s","h","o","w"," ","t","o","p"," ","v","e","n","d","o","r"," ","p","a","y","m","e","n","t",
    "s"," ","t","h","i","s"," ","q","u","a","r","t","e","r">>

MyFatherPassedAway ==
  <<"M","y"," ","f","a","t","h","e","r"," ","P","a","s","s","e","d"," ","A","w","a","y">>

HowManyDeaths ==
  <<"H","o","w"," ","m","a","n","y"," ","d","e","a","t","h","s"," ","i","n"," ","2","0","2","3">>

\* the texts in the input box: every text of up to MaxQueryLen letters, the
\* quick-category queries and three longer ones
DemoQueries ==
  UNION {[1..k -> QueryLetters] : k \in 1..MaxQueryLen}
    \cup {QUICK_CATEGORIES[i] : i \in 1..Len(QUICK_CATEGORIES)}
    \cup {ShowTopVendorPayments, MyFatherPassedAway, HowManyDeaths}

\* mounted with demo mode on, a preference chosen and a text typed
DemoInit ==
  /\ variant \in Variants
  /\ mounted = TRUE
  /\ apiBase = JStr(DEFAULT_API)
  /\ demoMode = JBool(TRUE)
  /\ pipelinePref \in {JStr(p) : p \in PipelinePrefs}
  /\ storage = [k \in StorageKeySet |->
                  JSONstringify(IF k = STORAGE_KEYS.apiBase THEN apiBase
                                ELSE IF k = STORAGE_KEYS.demoMode THEN demoMode
                                ELSE pipelinePref)]
  /\ busy = FALSE
  /\ error = JSNull
  /\ query \in DemoQueries
  /\ messages = InitialMessages(variant)
  /\ inflight = {}
  /\ nSent = 0
  /\ last = [op |-> "mount"]

\* data = mockResponse(text) of App.tsx, data = mockResponse(userQ, pipelinePref) of part_002
CallMockResponse ==
  /\ Truthy(demoMode)
  /\ \E id \in AuditIds :
       last' = [op |-> "mockResponse", q |-> trim(query), pref |-> pipelinePref.str,
                value |-> mockResponse(variant, trim(query), pipelinePref, id)]
  /\ UNCHANGED <<variant, mounted, settingsVars, chatVars>>

DemoNext == CallMockResponse

DemoSpec == DemoInit /\ [][DemoNext]_vars

\* C12: the demo responder honors a forcing preference: preference navigator
\* gives a navigator payload and preference trustbot a trustbot payload, whatever
\* the query says.
C12_DemoHonorsForcedKind ==
  (last.op = "mockResponse" /\ last.pref # "auto") => last.value.kind = last.pref

\* q has one of the words somewhere, in any mix of upper and lower case
HasKeyword(q, words) ==
  \E w \in words, k \in 1..Len(q) :
     /\ k + Len(w) - 1 <= Len(q)
     /\ \A j \in 1..Len(w) : ToLower(q[k + j - 1]) = w[j]

BereavementKeywords ==
  { <<"d","i","e">>, <<"p","a","s","s","e","d"," ","a","w","a","y">>,
    <<"b","e","r","e","a","v","e">>, <<"d","e","a","t","h">> }

AggregationKeywords ==
  { <<"t","o","p">>, <<"a","v","e","r","a","g","e">>, <<"m","e","d","i","a","n">>,
    <<"q","u","a","r","t","e","r">>, <<"a","m","o","u","n","t">>, <<"s","u","m">>,
    <<"h","o","w"," ","m","a","n","y">>, <<"s","h","o","w">> }

\* the payload is a navigator payload that starts with the step 'Register the death'
StartsWithRegisterTheDeath(value) ==
  /\ value.kind = "navigator"
  /\ Len(value.steps.arr) >= 1
  /\ value.steps.arr[1].title = "Register the death"

HasTableWithRows(value) ==
  /\ value.kind = "trustbot"
  /\ Has(value, "table")
  /\ Len(value.table.rows.arr) >= 1

MaxSteps == 2

\* an object without properties
EmptyObject == [k \in {} |-> TRUE]

\* the objects that have the property `name` with one of the values, or lack it
Opt(name, values) == {EmptyObject} \cup {name :> v : v \in values}

\* elements of a steps array: with title, with title and link, without title, null
StepValues ==
  { [title |-> "Apply"], [title |-> "Pay", link |-> "https://example.gov"],
    [link |-> "https://example.gov"], JSNull }

\* the values of `steps`: the arrays of up to MaxSteps elements, and a string
StepsValues ==
  {[arr |-> l] : l \in UNION {[1..n -> StepValues] : n \in 0..MaxSteps}}
    \cup {[str |-> "soon"]}

KindValues == {"navigator", "trustbot", "error", "summary_prompt", "unknown_future_type"}

\* the values of `table`: null, columns or rows missing, rows shorter than the
\* columns, null cells, no rows, no columns
TableValues ==
  { JSNull,
    [columns |-> [arr |-> <<"a", "b">>]],
    [rows |-> [arr |-> << [arr |-> <<[num |-> 1]>>] >>]],
    [columns |-> [arr |-> <<"a", "b">>], rows |-> [arr |-> <<>>]],
    [columns |-> [arr |-> <<>>], rows |-> [arr |-> << [arr |-> <<[num |-> 1]>>] >>]],
    [columns |-> [arr |-> <<"a", "b">>],
     rows |-> [arr |-> << [arr |-> <<[num |-> 1], JSNull>>] >>]],
    [columns |-> [arr |-> <<"vendor", "amount">>],
     rows |-> [arr |-> << [arr |-> <<JStr("Acme"), [num |-> 830000]>>],
                         [arr |-> <<JStr("Koala")>>] >>]] }

ChartValues == { [type |-> "bar", x |-> "vendor", y |-> "amount"],
                 [type |-> "line", x |-> "a", y |-> "b"] }

\* response bodies: every combination of kind, answer and steps, and every
\* combination of kind, table and chart, each property present or absent
Payloads ==
  {k @@ a @@ s : k \in Opt("kind", KindValues), a \in Opt("answer", {"", "It depends."}),
                 s \in Opt("steps", StepsValues)}
    \cup {k @@ a @@ t @@ c : k \in Opt("kind", KindValues), a \in Opt("answer", {"42 payments."}),
                        t \in Opt("table", TableValues), c \in Opt("chart", ChartValues)}
    \cup {JSNull}

\* AssistantCard with the test for kind error left out
AssistantCardErrorAsUnknown(payload, fallback) ==
  IF ~Truthy(payload) THEN [shows |-> "text", text |-> fallback]
  ELSE IF Has(payload, "kind") /\ payload.kind = "navigator"
    THEN [shows |-> "NavigatorAnswer", data |-> payload]
  ELSE IF Has(payload, "kind") /\ payload.kind = "trustbot"
    THEN [shows |-> "TrustbotAnswer", data |-> payload]
  ELSE [shows |-> "text and dump", text |-> fallback, dump |-> payload]

\* AssistantCard: which element the card renders
AssistantCard(payload, fallback) ==
  IF ~Truthy(payload) \/ (Has(payload, "kind") /\ payload.kind = "error")
    THEN [shows |-> "text", text |-> fallback]
  ELSE IF Has(payload, "kind") /\ payload.kind = "navigator"
    THEN [shows |-> "NavigatorAnswer", data |-> payload]
  ELSE IF Has(payload, "kind") /\ payload.kind = "trustbot"
    THEN [shows |-> "TrustbotAnswer", data |-> payload]
  ELSE [shows |-> "text and dump", text |-> fallback, dump |-> payload]

\* MessageBubble of App.tsx: the summary prompt is shown as text with a button
MessageBubbleWidget(item) ==
  LET summaryPrompt == PayloadKindIs(item, "summary_prompt") IN
  IF item.role = "assistant" /\ Has(item, "payload") /\ Truthy(item.payload) /\ ~summaryPrompt
    THEN AssistantCard(item.payload, item.content)
  ELSE IF summaryPrompt THEN [shows |-> "text and button", text |-> item.content]
  ELSE [shows |-> "text", text |-> item.content]

\* MessageBubble of part_002
MessageBubbleApp(item) ==
  IF item.role = "assistant" /\ Has(item, "payload") /\ Truthy(item.payload)
    THEN AssistantCard(item.payload, item.content)
    ELSE [shows |-> "text", text |-> item.content]

MessageBubble(v, item) ==
  IF v = "AssistantWidget" THEN MessageBubbleWidget(item) ELSE MessageBubbleApp(item)

\* undefined: a variable without a value, an index past the end of an array
JSUndefined == [undefined |-> TRUE]

\* r[i]
Cell(r, i) == IF i <= Len(r.arr) THEN r.arr[i] ELSE JSUndefined

\* table.columns.forEach((c, i) => (o[c] = r[i])): a name assigned twice keeps
\* the later value
RowObject(columns, r) ==
  [c \in {columns[i] : i \in 1..Len(columns)} |->
     Cell(r, CHOOSE i \in 1..Len(columns) :
               columns[i] = c /\ \A j \in (i + 1)..Len(columns) : columns[j] # c)]

\* the projection with null cells left out of the object (read back as undefined)
rowsToObjectsDropsNull(table) ==
  IF table = JSUndefined \/ IsNull(table) THEN Returns(<<>>)
  ELSE IF ~Has(table, "columns") \/ ~Has(table, "rows") THEN Returns(<<>>)
  ELSE Returns([k \in 1..Len(table.rows.arr) |->
                  [c \in DOMAIN RowObject(table.columns.arr, table.rows.arr[k]) |->
                     IF IsNull(RowObject(table.columns.arr, table.rows.arr[k])[c])
                       THEN JSUndefined
                       ELSE RowObject(table.columns.arr, table.rows.arr[k])[c]]])

\* rowsToObjects(table)
rowsToObjects(table) ==
  IF table = JSUndefined \/ IsNull(table) THEN Returns(<<>>)
  ELSE IF \/ ~Has(table, "columns") \/ ~Truthy(table.columns)
          \/ ~Has(table, "rows") \/ ~Truthy(table.rows) THEN Returns(<<>>)
  ELSE IF ~IsArr(table.rows) THEN Throws
  ELSE IF table.rows.arr = <<>> THEN Returns(<<>>)
  ELSE IF ~IsArr(table.columns) THEN Throws
  ELSE IF /\ table.columns.arr # <<>>
          /\ \E k \in 1..Len(table.rows.arr) : ~IsArr(table.rows.arr[k]) THEN Throws
  ELSE Returns([k \in 1..Len(table.rows.arr) |->
                  RowObject(table.columns.arr, table.rows.arr[k])])

\* TrustbotAnswer: {chart && <BarChart data={rowsToObjects(table)}> ...}
ChartData(data) ==
  IF Has(data, "chart") /\ Truthy(data.chart)
    THEN rowsToObjects(IF Has(data, "table") THEN data.table ELSE JSUndefined)
    ELSE [nochart |-> TRUE]

\* a request of demo-off send("hi") whose fetch has resolved with res.ok
RenderInit ==
  /\ variant \in Variants
  /\ mounted = TRUE
  /\ apiBase = JStr(DEFAULT_API)
  /\ demoMode = JBool(FALSE)
  /\ pipelinePref = JStr("auto")
  /\ storage = [k \in StorageKeySet |->
                  JSONstringify(IF k = STORAGE_KEYS.apiBase THEN apiBase
                                ELSE IF k = STORAGE_KEYS.demoMode THEN demoMode
                                ELSE pipelinePref)]
  /\ busy = TRUE
  /\ error = JSNull
  /\ query = <<>>
  /\ messages = InitialMessages(variant) \o <<UserEntry(<<"h", "i">>)>>
  /\ inflight = {[id |-> 1, at |-> "json", text |-> "hi",
                  url |-> DEFAULT_API \o "/chat/query", method |-> "POST",
                  body |-> RequestPayload(<<"h", "i">>, pipelinePref)]}
  /\ nSent = 1
  /\ last = [op |-> "accepted", n |-> 1, len |-> 1, raw |-> <<"h", "i">>,
             effects |-> SendEffects]

\* res.json() resolves to one of Payloads
Receive ==
  /\ mounted
  /\ \E r \in inflight, data \in Payloads : r.at = "json" /\ Succeed(r, data)
  /\ UNCHANGED <<variant, settingsVars>>

\* React renders the transcript: one MessageBubble per entry
Render ==
  /\ mounted
  /\ last.op = "resolved"
  /\ last' = [op |-> "rendered",
              data |-> last.data,
              out |-> [i \in 1..Len(messages) |-> MessageBubble(variant, messages[i])],
              charts |-> [i \in 1..Len(messages) |->
                            IF MessageBubble(variant, messages[i]).shows = "TrustbotAnswer"
                              THEN ChartData(messages[i].payload)
                              ELSE [nochart |-> TRUE]]]
  /\ UNCHANGED <<variant, mounted, settingsVars, chatVars>>

RenderNext == Receive \/ Render

RenderSpec == RenderInit /\ [][RenderNext]_vars

\* the entry has no payload to dispatch on: none at all, or null
NoPayload(item) == ~Has(item, "payload") \/ IsNull(item.payload)

\* the entry's payload has a kind other than the ones listed, or no kind
KindIsNoneOf(item, kinds) ==
  ~NoPayload(item) /\ (Has(item.payload, "kind") => item.payload.kind \notin kinds)

\* what the rule of C16 says the assistant entry item renders to, given the kinds
\* that do not get the raw dump
FollowsDispatchRule(item, out, known) ==
  /\ (NoPayload(item) \/ PayloadKindIs(item, "error")) =>
       out = [shows |-> "text", text |-> item.content]
  /\ PayloadKindIs(item, "navigator") =>
       out = [shows |-> "NavigatorAnswer", data |-> item.payload]
  /\ PayloadKindIs(item, "trustbot") =>
       out = [shows |-> "TrustbotAnswer", data |-> item.payload]
  /\ KindIsNoneOf(item, known) =>
       out = [shows |-> "text and dump", text |-> item.content, dump |-> item.payload]

\* C16 as stated: an assistant entry renders by its payload: fallback text only
\* when the payload is absent or of kind error, the dedicated renderer for
\* navigator and trustbot, fallback text and raw dump for every other kind and for
\* a missing kind.
C16_DispatchOnKind ==
  last.op = "rendered" =>
    \A i \in 1..Len(messages) :
       messages[i].role = "assistant" =>
         FollowsDispatchRule(messages[i], last.out[i], {"error", "navigator", "trustbot"})

\* C16 amended: as stated, except that AssistantWidget renders an entry of kind
\* summary_prompt as its text with the follow-up button and no dump.
C16_DispatchOnKindWithSummaryPrompt ==
  last.op = "rendered" =>
    \A i \in 1..Len(messages) :
       messages[i].role = "assistant" =>
         IF variant = "AssistantWidget" /\ PayloadKindIs(messages[i], "summary_prompt")
           THEN last.out[i] = [shows |-> "text and button", text |-> messages[i].content]
           ELSE /\ FollowsDispatchRule(messages[i], last.out[i],
                                       {"error", "navigator", "trustbot", "summary_prompt"})
                /\ PayloadKindIs(messages[i], "summary_prompt") =>
                     last.out[i] = [shows |-> "text and dump", text |-> messages[i].content,
                                    dump |-> messages[i].payload]

\* AssistantWidget rendered a navigator answer with its card and the follow-up
\* entry after it as text with the button
C16_Witness ==
  /\ last.op = "rendered"
  /\ variant = "AssistantWidget"
  /\ last.out[3].shows = "NavigatorAnswer"
  /\ messages[4] = SummaryPrompt
  /\ last.out[4] = [shows |-> "text and button", text |-> SummaryPrompt.content]

(***************************************************************************)
(* The preference store: the three useLocalStorage hooks on their own,     *)
(* over a localStorage that can refuse a write (quota exceeded) or be      *)
(* denied altogether, and across reloads of the page.                      *)
(***************************************************************************)
\* the value of the hook with the given key
HookValue(key) ==
  IF key = STORAGE_KEYS.apiBase THEN apiBase
  ELSE IF key = STORAGE_KEYS.demoMode THEN demoMode
  ELSE pipelinePref

\* the initial value the component passes to the hook
HookDefault(v, key) ==
  IF key = STORAGE_KEYS.apiBase THEN JStr(DEFAULT_API)
  ELSE IF key = STORAGE_KEYS.demoMode THEN DefaultDemoMode(v)
  ELSE JStr("auto")

\* the values the component's controls pass to the setter of the hook
SetterValues(key) ==
  IF key = STORAGE_KEYS.apiBase THEN {JStr(""), JStr(OtherApi), JStr(DEFAULT_API)}
  ELSE IF key = STORAGE_KEYS.demoMode THEN {JBool(TRUE), JBool(FALSE)}
  ELSE {JStr(p) : p \in PipelinePrefs}

\* what getItem answers when localStorage is denied to the page
Denied(store) == [k \in DOMAIN store |-> GetItemThrows]

\* the effect: try { localStorage.setItem(key, JSON.stringify(value)) } catch {}
\* wrote says whether setItem returned; if it threw, the entry is as it was
TryWrite(store, key, value, wrote) ==
  IF wrote THEN useLocalStorageEffect(store, key, value) ELSE store

\* The component mounts over the store `content`: each hook reads its entry and
\* its effect writes the value back.
StoreInit ==
  /\ variant \in Variants
  /\ mounted = TRUE
  /\ \E a \in InitialApiItems, d \in InitialDemoItems, p \in InitialPrefItems,
        denied \in BOOLEAN, wrote \in BOOLEAN :
       LET content == [k \in StorageKeySet |->
                         IF k = STORAGE_KEYS.apiBase THEN a
                         ELSE IF k = STORAGE_KEYS.demoMode THEN d ELSE p]
           found == IF denied THEN Denied(content) ELSE content
           value == [k \in StorageKeySet |->
                       useLocalStorageInit(found, k, HookDefault(variant, k))]
       IN  /\ denied => ~wrote
           /\ apiBase = value[STORAGE_KEYS.apiBase]
           /\ demoMode = value[STORAGE_KEYS.demoMode]
           /\ pipelinePref = value[STORAGE_KEYS.pipelinePref]
           /\ storage = [k \in StorageKeySet |-> TryWrite(content, k, value[k], wrote)[k]]
           /\ last = [op |-> "mount", denied |-> denied]
  /\ busy = FALSE
  /\ error = JSNull
  /\ query = <<>>
  /\ messages = InitialMessages(variant)
  /\ inflight = {}
  /\ nSent = 0

\* setValue(v) of the hook with the given key, and its effect
setValue(key, v, wrote) ==
  /\ mounted
  /\ apiBase' = IF key = STORAGE_KEYS.apiBase THEN v ELSE apiBase
  /\ demoMode' = IF key = STORAGE_KEYS.demoMode THEN v ELSE demoMode
  /\ pipelinePref' = IF key = STORAGE_KEYS.pipelinePref THEN v ELSE pipelinePref
  /\ storage' = TryWrite(storage, key, v, wrote)
  /\ last' = [op |-> "set", key |-> key, value |-> v, wrote |-> wrote]
  /\ UNCHANGED <<variant, mounted, chatVars>>

\* the page is loaded again: the hooks read the store as it is now
reload(denied, wrote) ==
  LET found == IF denied THEN Denied(storage) ELSE storage
      value == [k \in StorageKeySet |->
                  useLocalStorageInit(found, k, HookDefault(variant, k))]
  IN  /\ denied => ~wrote
      /\ apiBase' = value[STORAGE_KEYS.apiBase]
      /\ demoMode' = value[STORAGE_KEYS.demoMode]
      /\ pipelinePref' = value[STORAGE_KEYS.pipelinePref]
      /\ storage' = [k \in StorageKeySet |-> TryWrite(storage, k, value[k], wrote)[k]]
      /\ last' = [op |-> "mount", denied |-> denied]
      /\ UNCHANGED <<variant, mounted, chatVars>>

StoreNext ==
  \/ \E key \in StorageKeySet, wrote \in BOOLEAN :
        \E v \in SetterValues(key) : setValue(key, v, wrote)
  \/ \E denied \in BOOLEAN, wrote \in BOOLEAN : reload(denied, wrote)

StoreSpec == StoreInit /\ [][StoreNext]_vars

\* the stored text is no entry a value can be read from: absent, empty or no JSON
Malformed(raw) == raw \in {NoItem, ""} \/ IsThrow(JSONparse(raw))

\* C17: reading a setting never fails the caller: for an entry that is absent or
\* malformed, and for every entry of a store that throws, get returns the
\* supplied default, whatever default is supplied.
C17_MalformedReadsGiveDefault ==
  \A key \in StorageKeySet, d \in JSValues :
     /\ Malformed(storage[key]) => useLocalStorageInit(storage, key, d) = d
     /\ useLocalStorageInit(Denied(storage), key, d) = d
     /\ (last.op = "mount" /\ (last.denied \/ Malformed(storage[key]))) =>
          HookValue(key) = HookDefault(variant, key)

\* the page was loaded over an entry that is no JSON and came up with the default
C17_Witness ==
  /\ last.op = "mount"
  /\ ~last.denied
  /\ storage[STORAGE_KEYS.pipelinePref] = "{not json"
  /\ pipelinePref = JStr("auto")

C19_ProjectionZipsColumnsWithRows ==
  last.op = "rendered" =>
    \A n \in 1..Len(messages) :
       (~Has(last.charts[n], "nochart")) =>
         LET data == messages[n].payload
             res  == last.charts[n]
         IN  /\ ~IsThrow(res)
             /\ IF \/ ~Has(data, "table") \/ IsNull(data.table)
                   \/ ~Has(data.table, "columns") \/ ~Has(data.table, "rows")
                  THEN res.value = <<>>
                  ELSE LET C == data.table.columns.arr
                           R == data.table.rows.arr
                       IN  /\ Len(res.value) = Len(R)
                           /\ \A k \in 1..Len(R) :
                                /\ DOMAIN res.value[k] = {C[i] : i \in 1..Len(C)}
                                /\ \A i \in 1..Len(C) :
                                     res.value[k][C[i]] =
                                       IF i <= Len(R[k].arr) THEN R[k].arr[i] ELSE JSUndefined

\* a table with a null cell was projected for a chart, and the cell is null in
\* the row object
C19_Witness ==
  /\ last.op = "rendered"
  /\ Has(last.charts[3], "value")
  /\ Len(last.charts[3].value) = 1
  /\ DOMAIN last.charts[3].value[1] = {"a", "b"}
  /\ last.charts[3].value[1]["a"] = [num |-> 1]
  /\ last.charts[3].value[1]["b"] = JSNull

\* the generic header of the mounted component's formatter
GenericHeader ==
  IF variant = "AssistantWidget" THEN "Here are the recommended steps:"
  ELSE "Here are the recommended steps based on official sources:"

\* the answer of the payload, or the text given when it has none
AnswerOrElse(data, text) ==
  IF Has(data, "answer") /\ data.answer # "" THEN data.answer ELSE text

\* the titles of the steps, numbered from 1 in list order, one per line
RECURSIVE NumberedTitles(_, _)
NumberedTitles(steps, n) ==
  IF n > Len(steps) THEN ""
  ELSE ToString(n) \o ". " \o steps[n].title
         \o (IF n < Len(steps) THEN "\n" ELSE "") \o NumberedTitles(steps, n + 1)

\* every element of the steps value is a step with a title
AllTitled(steps) ==
  IsArr(steps) /\ \A i \in 1..Len(steps.arr) : Has(steps.arr[i], "title")

\* C20: the fallback text is a function of the payload alone and a string for
\* every payload: for navigator the answer (or the generic header) and then the
\* step titles numbered 1..n in list order, for trustbot the answer or the
\* generic placeholder, for every other kind the empty string.
C20_FallbackTextByKind ==
  last.op \in {"resolved", "crashed"} =>
    LET data == last.data
        text == formatAssistantText(variant, data)
    IN  /\ ~IsThrow(text)
        /\ (IsNavigator(data) /\ Has(data, "steps") /\ AllTitled(data.steps)) =>
             text.value = AnswerOrElse(data, GenericHeader) \o "\n"
                            \o NumberedTitles(data.steps.arr, 1)
        /\ (IsNavigator(data) /\ ~Has(data, "steps")) =>
             text.value = AnswerOrElse(data, GenericHeader) \o "\n"
        /\ (~IsNull(data) /\ Has(data, "kind") /\ data.kind = "trustbot") =>
             text.value = AnswerOrElse(data, "Here are the results with SQL shown.")
        /\ (IsNull(data) \/ ~Has(data, "kind")
              \/ data.kind \notin {"navigator", "trustbot"}) =>
             text.value = ""
        /\ last.op = "resolved" => messages[last.len + 1].content = text.value

\* C21: requests and responses pair up in the transcript: it starts with the
\* welcome entry, its last entry is a user entry exactly while busy is set, and
\* no two user entries are adjacent.
C21_RequestsPairWithResponses ==
  /\ Len(messages) >= 1
  /\ messages[1] = (IF variant = "AssistantWidget" THEN WelcomeWidget ELSE WelcomeApp)
  /\ messages[1].role # "user"
  /\ (messages[Len(messages)].role = "user") <=> busy
  /\ \A i \in 1..(Len(messages) - 1) :
       messages[i].role = "user" => messages[i + 1].role = "assistant"

\* the second question is pending: its user entry is last, the first question has
\* its answer and the follow-up entry between the two
C21_Witness ==
  /\ busy
  /\ nSent = 2
  /\ Len(messages) = 5
  /\ messages[2].role = "user"
  /\ messages[4] = SummaryPrompt
  /\ messages[5].role = "user"

\* a step that changes a setting
SettingsChanged == <<apiBase, demoMode, pipelinePref>>' # <<apiBase, demoMode, pipelinePref>>

\* C22: a request is made from the settings in effect when its submit is
\* accepted (demo or live, API base, force_kind); a change of a setting is
\* possible while it is pending and changes neither the pending request nor
\* transcript, busy flag or error string, and the completion appends the data the
\* request was started with.
C22_SettingsSnapshotAtSubmit ==
  [][/\ SendAccepted =>
          \A r \in inflight' \ inflight :
             IF Truthy(demoMode)
               THEN /\ r.at = "timer"
                    /\ \E aid \in AuditIds :
                         r.data = mockResponse(variant, trim(last'.raw), pipelinePref, aid)
               ELSE /\ r.at = "fetch"
                    /\ r.url = TemplateString(apiBase) \o "/chat/query"
                    /\ r.body = RequestPayload(trim(last'.raw), pipelinePref)
     /\ SettingsChanged =>
          /\ inflight' = inflight
          /\ messages' = messages
          /\ busy' = busy
          /\ error' = error
     /\ (RequestSucceeded /\ last'.demo) =>
          \E r \in inflight : r.at = "timer" /\ r.id = last'.n /\ r.data = last'.data]_vars

\* a live request to the default API base without force_kind is pending while the
\* settings now say demo mode, another API base and a forced pipeline
C22_Witness ==
  /\ busy
  /\ Truthy(demoMode)
  /\ apiBase = JStr(OtherApi)
  /\ pipelinePref = JStr("trustbot")
  /\ \E r \in inflight :
       /\ r.at = "fetch"
       /\ r.url = DEFAULT_API \o "/chat/query"
       /\ ~Has(r.body, "force_kind")

\* C23: the error string is set only while the latest completed request is a
\* failed one and no submit was accepted after it: when it is set the controller
\* is idle, nothing is pending and the transcript ends with the error entry; it
\* is set after every failure and null after every accepted submit and every
\* successful completion.
C23_ErrorOnlyAfterFailure ==
  /\ error # JSNull =>
       /\ ~busy
       /\ inflight = {}
       /\ messages[Len(messages)] = ErrorEntry
       /\ messages[Len(messages) - 1].role = "user"
       /\ last.op \in {"failed", "rejected"}
  /\ last.op = "failed" => error # JSNull
  /\ last.op \in {"accepted", "resolved", "crashed"} => error = JSNull
  /\ busy => error = JSNull

\* the second request was answered with HTTP 500 after the first had succeeded,
\* and the error is still shown after a submit of an empty input was rejected
C23_Witness ==
  /\ error = JStr("HTTP 500")
  /\ nSent = 2
  /\ ~busy
  /\ last.op = "rejected"
  /\ messages[3].role = "assistant"
  /\ messages[3] # ErrorEntry
  /\ messages[Len(messages)] = ErrorEntry

====
